---- MODULE Spec2Model ----
(***************************************************************************)
(* A model of quantecon/arma.py: the ARMA class, its phi/theta setters,    *)
(* set_params, and the queries impulse_response, spectral_density,         *)
(* autocovariance and simulation.                                          *)
(*                                                                         *)
(* Coefficients are integers (numpy keeps small integers exact, also after *)
(* the conversion to float inside scipy.signal).  A parameter value is a   *)
(* record [kind, val]: kind "scalar" (a Python number, val has length 1),  *)
(* kind "seq" (a list/array, val its entries) or kind "str" (a Python      *)
(* string, a non-numeric scalar; val is empty).                            *)
(***************************************************************************)
EXTENDS Integers, Sequences, FiniteSets, TLC

VARIABLES _phi, _theta, sigma, ar_poly, ma_poly, np_random, call, ret, orig

vars == <<_phi, _theta, sigma, ar_poly, ma_poly, np_random, call, ret, orig>>

-----------------------------------------------------------------------------
(* Bounds of the model *)

MaxLen == 2         \* longest phi / theta sequence
MaxLength == 4      \* largest impulse_length / ts_length argument

(* the global random stream is followed up to this position *)
MaxDraws == MaxLength + 1

(* Program constants *)

DefaultRes == 1200  \* spectral_density(self, two_pi=True, res=1200)

Coef == {0, 2}
Sigmas == {1, 2}
Seeds == {0, 1}     \* positions of the global random stream at construction

-----------------------------------------------------------------------------
(* Values and small sequence helpers *)

SeqsUpTo(S, lo, hi) == UNION {[1..n -> S] : n \in lo..hi}

Scalar(x) == [kind |-> "scalar", val |-> <<x>>]
Array(s) == [kind |-> "seq", val |-> s]
Str == [kind |-> "str", val |-> <<>>]

ValidParams(S) == {Scalar(x) : x \in S} \cup {Array(s) : s \in SeqsUpTo(S, 1, MaxLen)}
EmptyParam == Array(<<>>)

Zeros(n) == [i \in 1..n |-> 0]
Neg(s) == [i \in 1..Len(s) |-> 0 - s[i]]

(* np.isscalar: true of Python numbers and strings, false of lists/arrays *)
IsScalar(p) == p.kind \in {"scalar", "str"}

None == [kind |-> "none"]
Ok(v) == [kind |-> "ok", val |-> v]
Raise(e) == [kind |-> "raise", exc |-> e]
(* an array result of n entries whose real values are not modelled *)
OkLen(n) == [kind |-> "ok", len |-> n]

-----------------------------------------------------------------------------
(* set_params *)

(* line 114-115: ma_poly = np.insert(np.asarray(theta), 0, 1) *)
MaPoly(theta) == <<1>> \o theta.val

(* line 118-122: ar_poly = np.insert(-phi, 0, 1); unary minus on a str raises *)
NegatesOk(phi) == phi.kind # "str"
ArPolyRawNotNegated(phi) == <<1>> \o phi.val
ArPolyRaw(phi) ==
    IF IsScalar(phi) THEN <<1>> \o <<0 - phi.val[1]>> ELSE <<1>> \o Neg(phi.val)

(* line 125-127: pad ar_poly with zeros up to the length of ma_poly *)
PadOneShort(ar, ma) ==
    IF Len(ar) < Len(ma) THEN ar \o Zeros(Len(ma) - Len(ar) - 1) ELSE ar
Pad(ar, ma) ==
    IF Len(ar) < Len(ma) THEN ar \o Zeros(Len(ma) - Len(ar)) ELSE ar

(* The whole of set_params, given the stored phi and theta and the current   *)
(* ar_poly: the resulting ar_poly, ma_poly and outcome.  self.ma_poly is     *)
(* assigned (line 115) before -self._phi is evaluated (line 119), so a       *)
(* TypeError there leaves the new ma_poly next to the old ar_poly.           *)
set_params_keeps_padding(phi, theta, old_ar) ==
    LET longer == IF Len(old_ar) > Len(MaPoly(theta)) THEN old_ar ELSE MaPoly(theta) IN
    [ar |-> Pad(ArPolyRaw(phi), longer), ma |-> MaPoly(theta), out |-> None]
set_params(phi, theta, old_ar) ==
    IF NegatesOk(phi)
    THEN [ar |-> Pad(ArPolyRaw(phi), MaPoly(theta)), ma |-> MaPoly(theta), out |-> None]
    ELSE [ar |-> old_ar, ma |-> MaPoly(theta), out |-> Raise("TypeError")]

-----------------------------------------------------------------------------
(* History kept for the round-trip property: the phi and ar_poly of the     *)
(* constructed object, whether theta was assigned since, and whether phi    *)
(* was assigned a value other than the constructed one.  Off when not       *)
(* tracked.                                                                 *)

NoOrig == [on |-> FALSE]
OrigOf(phi, ar) ==
    [on |-> TRUE, phi |-> phi, ar |-> ar, theta_set |-> FALSE, phi_changed |-> FALSE]

Min(a, b) == IF a < b THEN a ELSE b

OrigAfterPhi(new_value) ==
    IF orig.on /\ new_value # orig.phi THEN [orig EXCEPT !.phi_changed = TRUE] ELSE orig
OrigAfterTheta == IF orig.on THEN [orig EXCEPT !.theta_set = TRUE] ELSE orig

-----------------------------------------------------------------------------
(* Construction: ARMA(phi, theta, sigma), lines 70-73 *)

Construct(phi, theta, sig, seed, track) ==
    LET r == set_params(phi, theta, <<>>) IN
    /\ _phi = phi
    /\ _theta = theta
    /\ sigma = sig
    /\ ar_poly = r.ar
    /\ ma_poly = r.ma
    /\ np_random = seed
    /\ call = [op |-> "__init__"]
    /\ ret = None
    /\ orig = IF track THEN OrigOf(phi, r.ar) ELSE NoOrig

(* phi.setter, lines 79-82 *)
SetPhi(new_value) ==
    LET r == set_params(new_value, _theta, ar_poly) IN
    /\ _phi' = new_value
    /\ ar_poly' = r.ar
    /\ ma_poly' = r.ma
    /\ call' = [op |-> "phi.setter", arg |-> new_value]
    /\ ret' = r.out
    /\ orig' = OrigAfterPhi(new_value)
    /\ UNCHANGED <<_theta, sigma, np_random>>

(* theta.setter, lines 88-91 *)
SetTheta(new_value) ==
    LET r == set_params(_phi, new_value, ar_poly) IN
    /\ _theta' = new_value
    /\ ar_poly' = r.ar
    /\ ma_poly' = r.ma
    /\ call' = [op |-> "theta.setter", arg |-> new_value]
    /\ ret' = r.out
    /\ orig' = OrigAfterTheta
    /\ UNCHANGED <<_phi, sigma, np_random>>

-----------------------------------------------------------------------------
(* scipy.signal as called on sys = (ma_poly, ar_poly, 1)                     *)

RECURSIVE Dot(_, _)
Dot(s, t) == IF s = <<>> THEN 0 ELSE Head(s) * Head(t) + Dot(Tail(s), Tail(t))

(* tf2ss(num, den): num and den are polynomials in z, highest power first.  *)
(* The numerator is padded with zeros ON THE LEFT to the length of den;     *)
(* A is the companion matrix of den (first row -den[1:], then a shift), B   *)
(* the first unit vector, C = num[1:] - num[0]*den[1:], D = num[0].  A      *)
(* numerator longer than the denominator is an improper transfer function.  *)
Proper(num, den) == Len(num) <= Len(den)
NumPad(num, den) == Zeros(Len(den) - Len(num)) \o num
tf2ss(num, den) ==
    LET K == Len(den)
        np == NumPad(num, den)
    IN  IF K = 1
        THEN [a |-> <<0>>, b |-> 0, c |-> <<0>>, d |-> np[1]]
        ELSE [a |-> Neg(Tail(den)),
              b |-> 1,
              c |-> [i \in 1..(K - 1) |-> np[i + 1] - np[1] * den[i + 1]],
              d |-> np[1]]

(* one step of dlsim's loop: x[i+1] = A x[i] + B u[i], y[i] = C x[i] + D u[i] *)
StateNext(ss, x, u) ==
    [i \in 1..Len(x) |-> IF i = 1 THEN Dot(ss.a, x) + ss.b * u ELSE x[i - 1]]
Output(ss, x, u) == Dot(ss.c, x) + ss.d * u

RECURSIVE DlsimLoop(_, _, _)
DlsimLoop(ss, x, u) ==
    IF u = <<>> THEN <<>>
    ELSE <<Output(ss, x, Head(u))>> \o DlsimLoop(ss, StateNext(ss, x, Head(u)), Tail(u))

(* dlsim(system, u): zero initial state; xout[0, :] = ... on an array with  *)
(* no rows (no samples) is an IndexError.                                   *)
dlsim(num, den, u) ==
    IF ~Proper(num, den) THEN Raise("ValueError")
    ELSE IF Len(u) = 0 THEN Raise("IndexError")
    ELSE LET ss == tf2ss(num, den) IN Ok(DlsimLoop(ss, Zeros(Len(ss.a)), u))

(* dimpulse(system, n=n): t = np.linspace(0, n, n, endpoint=False), a       *)
(* ValueError for n < 0; u = zeros((n, 1)); u[0, 0] = 1.0, an IndexError    *)
(* for n = 0; then dlsim over the n samples.                                *)
UnitImpulse(n) == [i \in 1..n |-> IF i = 1 THEN 1 ELSE 0]
dimpulse(num, den, n) ==
    IF ~Proper(num, den) THEN Raise("ValueError")
    ELSE IF n < 0 THEN Raise("ValueError")
    ELSE IF n = 0 THEN Raise("IndexError")
    ELSE dlsim(num, den, UnitImpulse(n))

-----------------------------------------------------------------------------
(* The global random stream of numpy: np_random is the position in it, and  *)
(* Stream(k) the k-th standard-normal draw (integers stand for the draws).  *)
Stream(k) == ((k * k + 3 * k + 1) % 5) - 2

(* np.random.randn(n, 1) from position pos: the next n draws *)
randn_reseeded(pos, n) == [i \in 1..n |-> Stream(i - 1)]
randn(pos, n) == [i \in 1..n |-> Stream(pos + i - 1)]
Scale(s, c) == [i \in 1..Len(s) |-> s[i] * c]

-----------------------------------------------------------------------------
(* Queries *)

(* impulse_response, lines 140-144 *)
impulse_response(impulse_length) == dimpulse(ma_poly, ar_poly, impulse_length)

ImpulseResponse(impulse_length) ==
    /\ call' = [op |-> "impulse_response", arg |-> impulse_length]
    /\ ret' = impulse_response(impulse_length)
    /\ UNCHANGED <<_phi, _theta, sigma, ar_poly, ma_poly, np_random, orig>>

(* spectral_density, lines 180-183: freqz at res points; w and spect both   *)
(* have res entries.                                                        *)
spectral_density(two_pi, res) == OkLen(res)

SpectralDensity(two_pi, res) ==
    /\ call' = [op |-> "spectral_density", arg |-> res, two_pi |-> two_pi]
    /\ ret' = spectral_density(two_pi, res)
    /\ UNCHANGED <<_phi, _theta, sigma, ar_poly, ma_poly, np_random, orig>>

(* acov[:num_autocov] on an array of n entries: Python slice semantics *)
SliceStopUnclamped(n, stop) ==
    IF stop < 0 THEN (IF n + stop < 0 THEN 0 ELSE n + stop) ELSE stop
SliceStop(n, stop) ==
    IF stop < 0 THEN (IF n + stop < 0 THEN 0 ELSE n + stop) ELSE Min(stop, n)

(* autocovariance, lines 197-201: the ifft of the default spectral density  *)
(* has as many entries as it; the result is its first entries, lags         *)
(* 0 .. len-1.                                                              *)
autocovariance(num_autocov) ==
    OkLen(SliceStop(spectral_density(TRUE, DefaultRes).len, num_autocov))

Autocovariance(num_autocov) ==
    /\ call' = [op |-> "autocovariance", arg |-> num_autocov]
    /\ ret' = autocovariance(num_autocov)
    /\ UNCHANGED <<_phi, _theta, sigma, ar_poly, ma_poly, np_random, orig>>

(* simulation, lines 218-222: the shocks come from numpy's global stream *)
Shocks(pos, ts_length) == Scale(randn(pos, ts_length), sigma)
RandomAfter(pos, ts_length) == IF ts_length < 0 THEN pos ELSE pos + ts_length
simulation(pos, ts_length) ==
    IF ts_length < 0 THEN Raise("ValueError")
    ELSE dlsim(ma_poly, ar_poly, Shocks(pos, ts_length))

Simulation(ts_length) ==
    /\ np_random + ts_length <= MaxDraws
    /\ call' = [op |-> "simulation", arg |-> ts_length, random_before |-> np_random]
    /\ ret' = simulation(np_random, ts_length)
    /\ np_random' = RandomAfter(np_random, ts_length)
    /\ UNCHANGED <<_phi, _theta, sigma, ar_poly, ma_poly, orig>>

-----------------------------------------------------------------------------
(* Argument sets.  impulse_length 1 is left out: dimpulse interpolates the  *)
(* input over a single time point there, and what that yields depends on   *)
(* the scipy version.  A negative res is left out for the same reason      *)
(* (np.linspace with a negative count).                                    *)

ImpulseLengths == {-1, 0} \cup 2..MaxLength
TsLengths == -1..MaxLength
NumLags == {-1, 0, 1, 16, DefaultRes, DefaultRes + 1}
Resolutions == {0, 1, DefaultRes}

Init ==
    \E phi \in ValidParams(Coef), theta \in ValidParams(Coef), sig \in Sigmas,
       seed \in Seeds :
        Construct(phi, theta, sig, seed, FALSE)

Next ==
    \/ \E v \in ValidParams(Coef) : SetPhi(v)
    \/ \E v \in ValidParams(Coef) : SetTheta(v)
    \/ \E n \in ImpulseLengths : ImpulseResponse(n)
    \/ \E two_pi \in BOOLEAN, res \in Resolutions : SpectralDensity(two_pi, res)
    \/ \E n \in NumLags : Autocovariance(n)
    \/ \E n \in TsLengths : Simulation(n)

Spec == Init /\ [][Next]_vars

-----------------------------------------------------------------------------
InitParams ==
    \E phi \in ValidParams(Coef), theta \in ValidParams(Coef) :
        Construct(phi, theta, 1, 0, TRUE)

NextParams ==
    \/ \E v \in ValidParams(Coef) : SetPhi(v)
    \/ \E v \in ValidParams(Coef) : SetTheta(v)

SpecParams == InitParams /\ [][NextParams]_vars

(* Assignments of invalid values as well: a string or an empty list to phi, *)
(* an empty list to theta.                                                  *)
Invalid(v) == v.kind = "str" \/ v.val = <<>>

InitInvalid ==
    \E phi \in ValidParams(Coef), theta \in ValidParams(Coef) :
        Construct(phi, theta, 1, 0, FALSE)

NextInvalid ==
    \/ \E v \in ValidParams(Coef) \cup {Str, EmptyParam} : SetPhi(v)
    \/ \E v \in ValidParams(Coef) \cup {EmptyParam} : SetTheta(v)

SpecInvalid == InitInvalid /\ [][NextInvalid]_vars

-----------------------------------------------------------------------------
(* Properties *)

P == Len(_phi.val)
Q == Len(_theta.val)

(* C1: after construction and after every assignment of valid values, the  *)
(* derived polynomials are those of the current phi and theta: ma_poly is  *)
(* [1, theta_1..theta_q], ar_poly is [1, -phi_1..-phi_p] followed only by  *)
(* zeros, and zeros are present only as far as the current ma_poly needs.  *)
C1_PolysCurrent ==
    /\ Len(ma_poly) = Q + 1
    /\ \A i \in 1..Len(ma_poly) : ma_poly[i] = IF i = 1 THEN 1 ELSE _theta.val[i - 1]
    /\ Len(ar_poly) >= P + 1
    /\ \A i \in 1..Len(ar_poly) :
          ar_poly[i] = IF i = 1 THEN 1 ELSE IF i - 1 <= P THEN 0 - _phi.val[i - 1] ELSE 0
    /\ Len(ar_poly) > P + 1 => Len(ar_poly) = Len(ma_poly)

(* the constructed ar_poly was padded for a longer theta; phi is still the *)
(* constructed one, a shorter theta was assigned and the padding is gone   *)
C1_Witness ==
    /\ orig.on /\ orig.theta_set /\ ~orig.phi_changed
    /\ call.op = "theta.setter"
    /\ _phi = orig.phi
    /\ Len(orig.ar) > P + 1
    /\ Len(ar_poly) = P + 1
    /\ _phi.val[1] # 0

(* C2: len(ar_poly) >= len(ma_poly); len(ar_poly) = len(ma_poly) when      *)
(* len(phi)+1 < len(theta)+1, and len(ar_poly) = len(phi)+1 otherwise.     *)
C2_Lengths ==
    /\ Len(ar_poly) >= Len(ma_poly)
    /\ IF P + 1 < Q + 1 THEN Len(ar_poly) = Len(ma_poly) ELSE Len(ar_poly) = P + 1

C2_Witness ==
    /\ call.op = "phi.setter"
    /\ P + 1 < Q + 1
    /\ Len(ar_poly) = Q + 1

(* C5: with theta untouched, assigning phi another value and then its      *)
(* constructed value again gives back exactly the constructed ar_poly.     *)
C5_PhiRoundTrip ==
    (orig.on /\ ~orig.theta_set /\ orig.phi_changed /\ _phi = orig.phi)
        => ar_poly = orig.ar

C5_Witness ==
    /\ orig.on /\ ~orig.theta_set /\ orig.phi_changed
    /\ _phi = orig.phi
    /\ call.op = "phi.setter"
    /\ Len(orig.ar) > P + 1
    /\ ar_poly = orig.ar

(* C8: an assignment of an invalid value (non-numeric or empty) to phi or  *)
(* theta is rejected, and leaves phi, theta, ar_poly and ma_poly as they   *)
(* were.                                                                   *)
C8_InvalidRejectedUnchanged ==
    [][(call'.op \in {"phi.setter", "theta.setter"} /\ Invalid(call'.arg))
          => (ret'.kind = "raise" /\ UNCHANGED <<_phi, _theta, ar_poly, ma_poly>>)]_vars

(* Reference sums of the model equation, over 1-based sample indices:      *)
(* sum_{i=1..n} phi_i * x[t-i] and sum_{j=1..n} theta_j * u[t-j], with     *)
(* every pre-sample value equal to 0.                                      *)
RECURSIVE ArSum(_, _, _)
ArSum(x, t, n) ==
    IF n = 0 THEN 0
    ELSE (IF t - n >= 1 THEN _phi.val[n] * x[t - n] ELSE 0) + ArSum(x, t, n - 1)

RECURSIVE MaSum(_, _, _)
MaSum(u, t, n) ==
    IF n = 0 THEN 0
    ELSE (IF t - n >= 1 THEN _theta.val[n] * u[t - n] ELSE 0) + MaSum(u, t, n - 1)

ThetaAt(j) == IF j >= 1 /\ j <= Q THEN _theta.val[j] ELSE 0

(* C3: impulse_response(length), length >= 1, returns length values with   *)
(* psi[0] = 1 and psi[j] = theta_j + sum_{i=1..min(j,p)} phi_i * psi[j-i]. *)
C3_ImpulseResponse ==
    (call.op = "impulse_response" /\ call.arg >= 1) =>
        /\ ret.kind = "ok"
        /\ Len(ret.val) = call.arg
        /\ \A t \in 1..Len(ret.val) :
              ret.val[t] = (IF t = 1 THEN 1 ELSE ThetaAt(t - 1)) + ArSum(ret.val, t, P)

(* the scaled shocks a simulation call drew *)
DrawnShocks == [i \in 1..call.arg |-> sigma * Stream(call.random_before + i - 1)]

(* C4: the simulation of length n >= 1 returns n values, the zero-initial- *)
(* state ARMA filtering of the scaled shocks:                              *)
(* x_t = sum phi_i x_{t-i} + u_t + sum theta_j u_{t-j}.                    *)
C4_Simulation ==
    (call.op = "simulation" /\ call.arg >= 1) =>
        /\ ret.kind = "ok"
        /\ Len(ret.val) = call.arg
        /\ \A t \in 1..Len(ret.val) :
              ret.val[t] = ArSum(ret.val, t, P) + DrawnShocks[t] + MaSum(DrawnShocks, t, Q)

(* C6 as claimed: autocovariance(num_lags) returns exactly num_lags values *)
(* for every positive num_lags, also beyond the resolution of 1200.        *)
C6_ExactlyNumLags ==
    (call.op = "autocovariance" /\ call.arg > 0) =>
        (ret.kind = "ok" /\ ret.len = call.arg)

(* C6: autocovariance(num_lags) returns exactly num_lags values for every  *)
(* positive num_lags up to the resolution of 1200, and 1200 values for     *)
(* every larger num_lags.                                                  *)
C6_NumLagsUpToRes ==
    (call.op = "autocovariance" /\ call.arg > 0) =>
        /\ ret.kind = "ok"
        /\ ret.len = IF call.arg <= DefaultRes THEN call.arg ELSE DefaultRes

C6_Witness ==
    /\ call.op = "autocovariance"
    /\ call.arg > DefaultRes
    /\ ret.kind = "ok"
    /\ ret.len = DefaultRes

(* C7: a query called with a non-positive length / num_lags / resolution   *)
(* raises an error and returns nothing.                                    *)
Queries == {"impulse_response", "spectral_density", "autocovariance", "simulation"}
C7_NonPositiveRaises ==
    (call.op \in Queries /\ call.arg <= 0) => ret.kind = "raise"

C10_LengthZeroEmpty ==
    (call.op \in {"simulation", "impulse_response"} /\ call.arg = 0) => ret = Ok(<<>>)

====
